---------------------------- MODULE Spec2Model ----------------------------
(***************************************************************************)
(* A model of pse_bench.py, the Perspective Shift Effect benchmark:        *)
(* main() checks the two model names, load_prompts() reads the prompt      *)
(* file, evaluate() calls the base and the shift model once per prompt and *)
(* scores the texts, summarize() writes the CSV and markdown files and     *)
(* prints the comparison table and the final message.                      *)
(*                                                                         *)
(* Representation.                                                         *)
(*  - A Python str that the program tokenizes is a sequence of one-        *)
(*    character strings; str.split() is the operator Split.                *)
(*  - An Optional value is a sequence of length 0 (None) or 1 (the value). *)
(*  - A float score is a fixed-point integer, in units of 1/Scale, rounded *)
(*    down. A mean is the exact rational <<sum, count>>.                   *)
(***************************************************************************)
EXTENDS Integers, Sequences, FiniteSets, TLC

VARIABLES
    pc,           \* where the run is: main, load, evaluate, ..., done, raised
    err,          \* the exception that ended the run ("" while none)
    base_model,   \* os.environ.get("BASE_MODEL"): Optional model name
    shift_model,  \* os.environ.get("SHIFT_MODEL"): Optional model name
    out_path,     \* args.out
    data,         \* the list of mappings prompts.yml holds
    file_read,    \* whether prompts.yml has been opened and parsed
    prompts,      \* load_prompts' return value
    i,            \* 1-based position of the for loop of evaluate
    calls,        \* the remote calls issued so far, in order
    base_out,     \* (base_text, base_latency, base_tokens) of this iteration
    results,      \* evaluate's list of Result
    files,        \* the file system: path -> content, for the paths written
    console,      \* what rich's Console printed, in order
    sc_x,         \* scorer probe: the string given to compute_bleu
    sc_score      \* scorer probe: Optional score compute_bleu(x, x) returned

vars == <<pc, err, base_model, shift_model, out_path, data, file_read, prompts,
          i, calls, base_out, results, files, console, sc_x, sc_score>>

-----------------------------------------------------------------------------
(* Bounds of the model. *)

\* The longest prompt file, in entries.
MaxPrompts == 2

\* The longest string, in characters, the scorer probe is given.
MaxStrLen == 7

-----------------------------------------------------------------------------
(* Optional values and Python truthiness. *)

None == <<>>

Some(v) == <<v>>

\* bool(x) for an Optional str of characters: None and "" are falsy.
Truthy(o) == o # <<>> /\ o[1] # <<>>

\* bool(x) for an Optional opaque name: None and "" are falsy.
TruthyName(o) == o # <<>> /\ o[1] # ""

Min(a, b) == IF a <= b THEN a ELSE b

Max(a, b) == IF a >= b THEN a ELSE b

-----------------------------------------------------------------------------
(* Strings. *)

Alphabet == {"a", "b", " "}

Strings(n) == UNION {[1..k -> Alphabet] : k \in 0..n}

\* Length of the run of non-blank characters s starts with.
WordLen(s) ==
    IF \E k \in 1..Len(s) : s[k] = " "
    THEN (CHOOSE k \in 1..Len(s) : s[k] = " " /\ \A j \in 1..(k-1) : s[j] # " ") - 1
    ELSE Len(s)

\* str.split(): the maximal runs of non-blank characters, in order.
RECURSIVE Split(_)
Split(s) ==
    IF s = <<>> THEN <<>>
    ELSE IF Head(s) = " " THEN Split(Tail(s))
    ELSE <<SubSeq(s, 1, WordLen(s))>> \o Split(SubSeq(s, WordLen(s) + 1, Len(s)))

-----------------------------------------------------------------------------
(* The similarity scorers.  compute_bleu is nltk's sentence_bleu with one  *)
(* reference, the default weights (0.25, 0.25, 0.25, 0.25) and             *)
(* SmoothingFunction().method1 (epsilon = 0.1); compute_rouge is           *)
(* rouge_score's rougeL F-measure.                                         *)

\* Fixed-point unit of a score: the float 1.0 is Scale.
Scale == 10

\* nltk.util.ngrams: the contiguous n-token windows of tokens, in order.
ngrams(tokens, n) ==
    IF Len(tokens) < n THEN <<>>
    ELSE [k \in 1..(Len(tokens) - n + 1) |-> SubSeq(tokens, k, k + n - 1)]

\* collections.Counter(grams)[g]
Count(g, grams) == Cardinality({k \in DOMAIN grams : grams[k] = g})

RECURSIVE ClippedSum(_, _, _)
ClippedSum(S, hyp_grams, ref_grams) ==
    IF S = {} THEN 0
    ELSE LET g == CHOOSE x \in S : TRUE
         IN  Min(Count(g, hyp_grams), Count(g, ref_grams))
             + ClippedSum(S \ {g}, hyp_grams, ref_grams)

\* nltk modified_precision(references, hypothesis, n) as <<numerator, denominator>>:
\* clipped n-gram matches over max(1, number of n-grams of the hypothesis).
modified_precision(ref, hyp, n) ==
    LET hyp_grams == ngrams(hyp, n)
        ref_grams == ngrams(ref, n)
        distinct  == {hyp_grams[k] : k \in DOMAIN hyp_grams}
    IN  <<ClippedSum(distinct, hyp_grams, ref_grams), Max(1, Len(hyp_grams))>>

\* nltk brevity_penalty(closest_ref_len, hyp_len), fixed point: 1 when the
\* hypothesis is longer, 0 when it is empty, exp(1 - r/c) otherwise, with
\* exp(-d/c) taken as the reciprocal of its third-order Taylor polynomial.
brevity_penalty(ref_len, hyp_len) ==
    IF hyp_len > ref_len THEN Scale
    ELSE IF hyp_len = 0 THEN 0
    ELSE LET c == hyp_len
             d == ref_len - hyp_len
         IN  (Scale * 6 * c * c * c)
             \div (6 * c * c * c + 6 * c * c * d + 3 * c * d * d + d * d * d)

\* Numerator of the product of the four precisions, zero numerators left out.
RECURSIVE ProdNum(_, _)
ProdNum(p_n, k) ==
    IF k = 0 THEN 1
    ELSE (IF p_n[k][1] = 0 THEN 1 ELSE p_n[k][1]) * ProdNum(p_n, k - 1)

RECURSIVE ProdDen(_, _)
ProdDen(p_n, k) == IF k = 0 THEN 1 ELSE p_n[k][2] * ProdDen(p_n, k - 1)

RECURSIVE Pow(_, _)
Pow(b, e) == IF e = 0 THEN 1 ELSE b * Pow(b, e - 1)

\* Denominator of the product of the precisions with a positive numerator.
RECURSIVE ProdDenPositive(_, _)
ProdDenPositive(p_n, k) ==
    IF k = 0 THEN 1
    ELSE (IF p_n[k][1] = 0 THEN 1 ELSE p_n[k][2]) * ProdDenPositive(p_n, k - 1)

\* Mutant of SmoothedGeoMean: no smoothing function is passed, so nltk's
\* method0 leaves the zero precisions at 0 and the sum skips them.
SmoothedGeoMean_method0(p_n) ==
    LET num == ProdNum(p_n, 4) * Pow(Scale, 4)
        den == ProdDenPositive(p_n, 4)
    IN  CHOOSE s \in 0..Scale :
            /\ Pow(s, 4) * den <= num
            /\ \A t \in (s + 1)..Scale : Pow(t, 4) * den > num

\* method1 smoothing and the geometric mean: a precision with numerator 0
\* becomes epsilon / denominator = 1 / (10 * denominator); the result is
\* the largest s with (s / Scale)^4 <= p_1 * p_2 * p_3 * p_4.
SmoothedGeoMean(p_n) ==
    LET zeros == Cardinality({k \in 1..4 : p_n[k][1] = 0})
        num   == ProdNum(p_n, 4) * Pow(Scale, 4)
        den   == ProdDen(p_n, 4) * Pow(10, zeros)
    IN  CHOOSE s \in 0..Scale :
            /\ Pow(s, 4) * den <= num
            /\ \A t \in (s + 1)..Scale : Pow(t, 4) * den > num

\* nltk sentence_bleu([reference], hypothesis, smoothing_function = method1)
sentence_bleu(ref, hyp) ==
    LET p_n == [n \in 1..4 |-> modified_precision(ref, hyp, n)]
        bp  == brevity_penalty(Len(ref), Len(hyp))
    IN  IF p_n[1][1] = 0 THEN 0
        ELSE (bp * SmoothedGeoMean(p_n)) \div Scale

compute_bleu(candidate, reference) ==
    sentence_bleu(Split(reference), Split(candidate))

\* Length of the longest common subsequence of the first m tokens of a and
\* the first n tokens of b.
RECURSIVE LcsLen(_, _, _, _)
LcsLen(a, b, m, n) ==
    IF m = 0 \/ n = 0 THEN 0
    ELSE IF a[m] = b[n] THEN 1 + LcsLen(a, b, m - 1, n - 1)
    ELSE Max(LcsLen(a, b, m - 1, n), LcsLen(a, b, m, n - 1))

\* rouge_scorer.RougeScorer(["rougeL"], use_stemmer=True).score(reference,
\* candidate)["rougeL"].fmeasure.  The tokenizer lowercases, splits on
\* non-alphanumerics and Porter-stems tokens longer than 3 characters; on
\* words over {a, b} no Porter rule applies, so the tokens are those of Split.
compute_rouge(candidate, reference) ==
    LET target     == Split(reference)
        prediction == Split(candidate)
        lcs        == LcsLen(target, prediction, Len(target), Len(prediction))
    IN  IF target = <<>> \/ prediction = <<>> THEN 0
        ELSE IF lcs = 0 THEN 0
        ELSE (Scale * 2 * lcs) \div (Len(prediction) + Len(target))

-----------------------------------------------------------------------------
(* Inputs of a run: the environment, the command line, the prompt file and *)
(* what the remote service answers.                                        *)

\* What os.environ.get yields for a variable: unset, empty, or a model name.
EnvValues(name) == {None, Some(""), Some(name)}

\* "results.csv", the default of --out.
DefaultOut == <<"r", "e", "s", "u", "l", "t", "s", ".", "c", "s", "v">>

\* The --out paths tried: the default, a path ending in .md, a path with a
\* directory with a dot in it and no extension, a dot-file.
OutPaths ==
    { DefaultOut,
      <<"r", ".", "m", "d">>,
      <<"a", ".", "b", "/", "r">>,
      <<".", "r">> }

PromptTexts == {"p", "q"}

ReferenceTexts == {<<>>, <<"a">>}

\* An entry of prompts.yml: a mapping that may hold "prompt" and "reference".
Items ==
    {[prompt |-> p, reference |-> r] : p \in PromptTexts, r \in ReferenceTexts}
        \cup {[prompt |-> p] : p \in PromptTexts}
        \cup {[reference |-> r] : r \in ReferenceTexts}
        \cup {[k \in {} |-> ""]}

PromptFiles == UNION {[1..n -> Items] : n \in 0..MaxPrompts}

\* What a call that succeeds returns: (text, latency, total tokens).
GenTexts == {<<>>, <<"a">>}

GenOutcomes == [text : GenTexts, latency : {1}, tokens : {1}]

-----------------------------------------------------------------------------
(* load_prompts *)

\* dict.get(key): the value, or None when the mapping has no such key.
dict_get(item, key) == IF key \in DOMAIN item THEN Some(item[key]) ELSE None

Prompt(item) ==
    [prompt |-> dict_get(item, "prompt"), reference |-> dict_get(item, "reference")]

load_prompts(d) == [k \in DOMAIN d |-> Prompt(d[k])]

-----------------------------------------------------------------------------
(* main, up to evaluate *)

\* Mutant of EnvMissing: "and" for "or", so one missing name passes.
EnvMissing_and(b, s) == ~TruthyName(b) /\ ~TruthyName(s)

\* not base_model or not shift_model
EnvMissing(b, s) == ~TruthyName(b) \/ ~TruthyName(s)

Start ==
    /\ pc = "main"
    /\ IF EnvMissing(base_model, shift_model)
       THEN pc' = "raised" /\ err' = "ValueError"
       ELSE pc' = "load" /\ err' = err
    /\ UNCHANGED <<base_model, shift_model, out_path, data, file_read, prompts,
                   i, calls, base_out, results, files, console, sc_x, sc_score>>

LoadPrompts ==
    /\ pc = "load"
    /\ file_read' = TRUE
    /\ prompts' = load_prompts(data)
    /\ i' = 1
    /\ results' = <<>>
    /\ pc' = "evaluate"
    /\ UNCHANGED <<err, base_model, shift_model, out_path, data, calls, base_out,
                   files, console, sc_x, sc_score>>

-----------------------------------------------------------------------------
(* evaluate: one iteration is the base call, the shift call, the scoring   *)
(* and the append.  A call is issued (the request leaves) and then either  *)
(* returns an outcome or raises.                                           *)

\* The call a call_model(model, prompt, ...) issues.
Request(model, prompt) == [model |-> model, prompt |-> prompt, status |-> "inflight"]

\* The trace with its last call, the one in flight, closed with `status`.
Close(trace, status) ==
    [trace EXCEPT ![Len(trace)] = [@ EXCEPT !.status = status]]

\* The Result of lines 97-123 for prompt p and the two outcomes.
Result(p, base, shift) ==
    LET has_ref == Truthy(p.reference) IN
    [ prompt           |-> p.prompt,
      base_text        |-> base.text,
      shift_text       |-> shift.text,
      base_latency     |-> base.latency,
      shift_latency    |-> shift.latency,
      base_tokens      |-> base.tokens,
      shift_tokens     |-> shift.tokens,
      bleu_base_shift  |-> compute_bleu(shift.text, base.text),
      rouge_base_shift |-> compute_rouge(shift.text, base.text),
      bleu_ref_base    |-> IF has_ref THEN Some(compute_bleu(base.text, p.reference[1]))
                           ELSE None,
      bleu_ref_shift   |-> IF has_ref THEN Some(compute_bleu(shift.text, p.reference[1]))
                           ELSE None,
      rouge_ref_base   |-> IF has_ref THEN Some(compute_rouge(base.text, p.reference[1]))
                           ELSE None,
      rouge_ref_shift  |-> IF has_ref THEN Some(compute_rouge(shift.text, p.reference[1]))
                           ELSE None ]

\* Mutant of AppendResult: results.insert(0, r)
AppendResult_front(rs, r) == <<r>> \o rs

\* results.append(r)
AppendResult(rs, r) == Append(rs, r)

\* Line 94, the request: call_model(base_model, p.prompt, ...)
IssueBaseCall ==
    /\ pc = "evaluate"
    /\ i <= Len(prompts)
    /\ calls' = Append(calls, Request(base_model[1], prompts[i].prompt))
    /\ pc' = "await_base"
    /\ UNCHANGED <<err, base_model, shift_model, out_path, data, file_read, prompts,
                   i, base_out, results, files, console, sc_x, sc_score>>

\* Line 94, the answer.
ReturnBaseCall ==
    /\ pc = "await_base"
    /\ \E out \in GenOutcomes : base_out' = out
    /\ calls' = Close(calls, "returned")
    /\ pc' = "call_shift"
    /\ UNCHANGED <<err, base_model, shift_model, out_path, data, file_read, prompts,
                   i, results, files, console, sc_x, sc_score>>

\* Mutant of IssueShiftCall: line 95 passes base_model again.
IssueShiftCall_base ==
    /\ pc = "call_shift"
    /\ calls' = Append(calls, Request(base_model[1], prompts[i].prompt))
    /\ pc' = "await_shift"
    /\ UNCHANGED <<err, base_model, shift_model, out_path, data, file_read, prompts,
                   i, base_out, results, files, console, sc_x, sc_score>>

\* Line 95, the request: call_model(shift_model, p.prompt, ...)
IssueShiftCall ==
    /\ pc = "call_shift"
    /\ calls' = Append(calls, Request(shift_model[1], prompts[i].prompt))
    /\ pc' = "await_shift"
    /\ UNCHANGED <<err, base_model, shift_model, out_path, data, file_read, prompts,
                   i, base_out, results, files, console, sc_x, sc_score>>

\* Line 95, the answer, and lines 97-123: score and append.
ReturnShiftCall ==
    /\ pc = "await_shift"
    /\ \E out \in GenOutcomes :
           results' = AppendResult(results, Result(prompts[i], base_out, out))
    /\ calls' = Close(calls, "returned")
    /\ i' = i + 1
    /\ pc' = "evaluate"
    /\ UNCHANGED <<err, base_model, shift_model, out_path, data, file_read, prompts,
                   base_out, files, console, sc_x, sc_score>>

\* Mutant of CallRaises: evaluate catches the error, stops the loop and
\* returns the records it has.
CallRaises_swallowed ==
    /\ pc \in {"await_base", "await_shift"}
    /\ calls' = Close(calls, "raised")
    /\ pc' = "summarize"
    /\ err' = err
    /\ UNCHANGED <<base_model, shift_model, out_path, data, file_read, prompts,
                   i, base_out, results, files, console, sc_x, sc_score>>

\* openai.chat.completions.create raises: nothing catches it, up to main.
CallRaises ==
    /\ pc \in {"await_base", "await_shift"}
    /\ calls' = Close(calls, "raised")
    /\ pc' = "raised"
    /\ err' = "APIError"
    /\ UNCHANGED <<base_model, shift_model, out_path, data, file_read, prompts,
                   i, base_out, results, files, console, sc_x, sc_score>>

\* Line 124: the loop is over, evaluate returns results to main.
EvaluateReturn ==
    /\ pc = "evaluate"
    /\ i > Len(prompts)
    /\ pc' = "summarize"
    /\ UNCHANGED <<err, base_model, shift_model, out_path, data, file_read, prompts,
                   i, calls, base_out, results, files, console, sc_x, sc_score>>

-----------------------------------------------------------------------------
(* summarize *)

\* The fields of Result, in declaration order.
Fields ==
    << "prompt", "base_text", "shift_text", "base_latency", "shift_latency",
       "base_tokens", "shift_tokens", "bleu_base_shift", "rouge_base_shift",
       "bleu_ref_base", "bleu_ref_shift", "rouge_ref_base", "rouge_ref_shift" >>

\* dataclasses.asdict(r): the mapping from each field name to its value.
asdict(r) == [f \in DOMAIN r |-> r[f]]

\* pd.DataFrame(list of dicts): the columns are the keys the dicts hold (none
\* for the empty list), one row per dict.
DataFrame(dicts) ==
    [ columns |-> UNION {DOMAIN dicts[k] : k \in DOMAIN dicts},
      rows    |-> dicts ]

Frame(rs) == DataFrame([k \in DOMAIN rs |-> asdict(rs[k])])

\* df.to_csv(index=False): a header of the columns, one line per row.
to_csv(df) == [format |-> "csv", columns |-> df.columns, nrows |-> Len(df.rows)]

\* df.to_markdown(index=False): the same table, pipe-formatted.
to_markdown(df) == [format |-> "markdown", columns |-> df.columns, nrows |-> Len(df.rows)]

\* Index of the last occurrence of ch in p, 0 when there is none (rfind + 1).
RFind(p, ch) ==
    IF \E k \in 1..Len(p) : p[k] = ch
    THEN CHOOSE k \in 1..Len(p) : p[k] = ch /\ \A j \in (k + 1)..Len(p) : p[j] # ch
    ELSE 0

\* os.path.splitext(p) as <<root, ext>>: the extension starts at the last dot
\* of the last component, unless only dots precede it there.
splitext(p) ==
    LET sepIndex == RFind(p, "/")
        dotIndex == RFind(p, ".")
    IN  IF dotIndex > sepIndex /\ \E k \in (sepIndex + 1)..(dotIndex - 1) : p[k] # "."
        THEN <<SubSeq(p, 1, dotIndex - 1), SubSeq(p, dotIndex, Len(p))>>
        ELSE <<p, <<>>>>

\* os.path.splitext(out_path)[0] + ".md"
md_path(out) == splitext(out)[1] \o <<".", "m", "d">>

\* df[col].notna().any()
NotnaAny(df, col) == \E k \in DOMAIN df.rows : df.rows[k][col] # None

RECURSIVE SumOpt(_, _, _)
SumOpt(rows, col, n) ==
    IF n = 0 THEN 0
    ELSE (IF rows[n][col] = None THEN 0 ELSE rows[n][col][1]) + SumOpt(rows, col, n - 1)

\* df[col].mean(): over the non-null cells, as the rational <<sum, count>>.
Mean(df, col) ==
    << SumOpt(df.rows, col, Len(df.rows)),
       Cardinality({k \in DOMAIN df.rows : df.rows[k][col] # None}) >>

\* shift - base > 0, for two means
DeltaPositive(shift, base) == shift[1] * base[2] > base[1] * shift[2]

\* Mutant of LiftAchieved: ">" for ">=".
LiftAchieved_strict(shift, base) == 2 * shift[1] * base[2] > 3 * base[1] * shift[2]

\* shift_bleu >= 1.5 * base_bleu, for two means
LiftAchieved(shift, base) == 2 * shift[1] * base[2] >= 3 * base[1] * shift[2]

\* table.add_row("Avg <metric> vs Ref", base, shift, coloured delta)
TableRow(df, metric, base_col, shift_col) ==
    [ metric |-> metric,
      base   |-> Mean(df, base_col),
      shift  |-> Mean(df, shift_col),
      color  |-> IF DeltaPositive(Mean(df, shift_col), Mean(df, base_col))
                 THEN "green" ELSE "red" ]

\* Lines 128-129: build the frame and write the CSV file.
SummarizeWriteCsv ==
    /\ pc = "summarize"
    /\ files' = (out_path :> to_csv(Frame(results))) @@ files
    /\ pc' = "write_md"
    /\ UNCHANGED <<err, base_model, shift_model, out_path, data, file_read, prompts,
                   i, calls, base_out, results, console, sc_x, sc_score>>

\* Lines 130-132: write the markdown file.
SummarizeWriteMd ==
    /\ pc = "write_md"
    /\ files' = (md_path(out_path) :> to_markdown(Frame(results))) @@ files
    /\ pc' = "print_table"
    /\ UNCHANGED <<err, base_model, shift_model, out_path, data, file_read, prompts,
                   i, calls, base_out, results, console, sc_x, sc_score>>

\* Lines 134-163: build and print the table; df["bleu_ref_base"] raises
\* KeyError when the frame has no such column.
SummarizePrintTable ==
    /\ pc = "print_table"
    /\ LET df == Frame(results) IN
       IF "bleu_ref_base" \notin df.columns \/ "rouge_ref_base" \notin df.columns
       THEN /\ pc' = "raised"
            /\ err' = "KeyError"
            /\ console' = console
       ELSE /\ pc' = "final_message"
            /\ err' = err
            /\ console' = Append(console,
                 [ kind |-> "table",
                   rows |->
                     (IF NotnaAny(df, "bleu_ref_base")
                      THEN <<TableRow(df, "Avg BLEU vs Ref", "bleu_ref_base", "bleu_ref_shift")>>
                      ELSE <<>>)
                     \o
                     (IF NotnaAny(df, "rouge_ref_base")
                      THEN <<TableRow(df, "Avg ROUGE-L vs Ref", "rouge_ref_base", "rouge_ref_shift")>>
                      ELSE <<>>) ])
    /\ UNCHANGED <<base_model, shift_model, out_path, data, file_read, prompts,
                   i, calls, base_out, results, files, sc_x, sc_score>>

\* Lines 165-169: the final message, and summarize and main return.
SummarizeMessage ==
    /\ pc = "final_message"
    /\ LET df == Frame(results) IN
       console' =
           IF NotnaAny(df, "bleu_ref_base")
           THEN Append(console,
                    [ kind |-> "message",
                      text |-> IF LiftAchieved(Mean(df, "bleu_ref_shift"), Mean(df, "bleu_ref_base"))
                               THEN "150 % lift achieved" ELSE "Needs work" ])
           ELSE console
    /\ pc' = "done"
    /\ UNCHANGED <<err, base_model, shift_model, out_path, data, file_read, prompts,
                   i, calls, base_out, results, files, sc_x, sc_score>>

-----------------------------------------------------------------------------
(* The scorer probe: compute_bleu applied to a string and itself. *)

ScoreSelf ==
    /\ pc = "scorer"
    /\ sc_score = None
    /\ sc_score' = Some(compute_bleu(sc_x, sc_x))
    /\ UNCHANGED <<pc, err, base_model, shift_model, out_path, data, file_read,
                   prompts, i, calls, base_out, results, files, console, sc_x>>

-----------------------------------------------------------------------------
(* The specifications. *)

\* A run of main.
Init ==
    /\ pc = "main"
    /\ err = ""
    /\ base_model \in EnvValues("B")
    /\ shift_model \in EnvValues("S")
    /\ out_path \in OutPaths
    /\ data \in PromptFiles
    /\ file_read = FALSE
    /\ prompts = <<>>
    /\ i = 0
    /\ calls = <<>>
    /\ base_out = None
    /\ results = <<>>
    /\ files = <<>>
    /\ console = <<>>
    /\ sc_x = <<>>
    /\ sc_score = None

Next ==
    \/ Start
    \/ LoadPrompts
    \/ IssueBaseCall
    \/ ReturnBaseCall
    \/ IssueShiftCall
    \/ ReturnShiftCall
    \/ CallRaises
    \/ EvaluateReturn
    \/ SummarizeWriteCsv
    \/ SummarizeWriteMd
    \/ SummarizePrintTable
    \/ SummarizeMessage

Spec == Init /\ [][Next]_vars

\* compute_bleu on every string of at most MaxStrLen characters.
ScorerInit ==
    /\ pc = "scorer"
    /\ err = ""
    /\ base_model = None
    /\ shift_model = None
    /\ out_path = DefaultOut
    /\ data = <<>>
    /\ file_read = FALSE
    /\ prompts = <<>>
    /\ i = 0
    /\ calls = <<>>
    /\ base_out = None
    /\ results = <<>>
    /\ files = <<>>
    /\ console = <<>>
    /\ sc_x \in Strings(MaxStrLen)
    /\ sc_score = None

ScorerNext == ScoreSelf

ScorerSpec == ScorerInit /\ [][ScorerNext]_vars

-----------------------------------------------------------------------------
(* Properties.  Each is named after the claim it settles. *)

\* evaluate has returned its records to main (summarize is running or over).
EvaluateReturned ==
    \/ pc \in {"summarize", "write_md", "print_table", "final_message", "done"}
    \/ pc = "raised" /\ err = "KeyError"

\* summarize is over: it returned, or raised.
SummarizeEnded ==
    \/ pc = "done"
    \/ pc = "raised" /\ err = "KeyError"

\* Every entry of the prompt file supplies "prompt", as the file format asks.
ValidFile == \A k \in DOMAIN data : "prompt" \in DOMAIN data[k]

\* The final messages printed so far.
Messages == SelectSeq(console, LAMBDA e : e.kind = "message")

\* The records that carry reference scores.
RefRecords == SelectSeq(results, LAMBDA r : r.bleu_ref_base # None)

RECURSIVE FieldSum(_, _)
FieldSum(rs, f) == IF rs = <<>> THEN 0 ELSE Head(rs)[f][1] + FieldSum(Tail(rs), f)

\* C1: every record's four reference-dependent fields are all non-null when
\* its prompt carried a reference (of any content) and all null when not.
\* Stated of the runs over a valid prompt file.
C1_RefFieldsIffReference ==
    ValidFile => \A k \in DOMAIN results :
        LET r == results[k]
            ref_fields == {r.bleu_ref_base, r.bleu_ref_shift,
                           r.rouge_ref_base, r.rouge_ref_shift}
        IN  IF prompts[k].reference # None
            THEN None \notin ref_fields
            ELSE ref_fields = {None}

\* C2: once a remote call has failed the run is aborted: summarize never
\* starts, no file is written, nothing is printed, evaluate returns nothing.
C2_FailureAborts ==
    (\E k \in DOMAIN calls : calls[k].status = "raised")
        => /\ pc = "raised"
           /\ err = "APIError"
           /\ ~EvaluateReturned
           /\ files = <<>>
           /\ console = <<>>

\* C2's case: the second prompt's base call fails after both calls of the
\* first prompt succeeded.
C2_Witness ==
    /\ Len(calls) = 3
    /\ calls[1].status = "returned"
    /\ calls[2].status = "returned"
    /\ calls[3].status = "raised"
    /\ Len(results) = 1
    /\ pc = "raised"

\* C3: the calls issued so far are a prefix of base(p1), shift(p1), ...,
\* base(pn), shift(pn); every call but the last has returned before the next
\* was issued; when evaluate returns, the trace is the whole sequence, each
\* call made once, and it is empty (as is the result) for no prompts.
C3_CallTrace ==
    /\ Len(calls) <= 2 * Len(prompts)
    /\ \A k \in DOMAIN calls :
           /\ calls[k].model = IF k % 2 = 1 THEN base_model[1] ELSE shift_model[1]
           /\ calls[k].prompt = prompts[(k + 1) \div 2].prompt
           /\ k < Len(calls) => calls[k].status = "returned"
    /\ EvaluateReturned =>
           /\ Len(calls) = 2 * Len(prompts)
           /\ \A k \in DOMAIN calls : calls[k].status = "returned"
           /\ prompts = <<>> => calls = <<>> /\ results = <<>>

\* C3's case: evaluate returned after two prompts with different texts.
C3_Witness ==
    /\ EvaluateReturned
    /\ Len(prompts) = 2
    /\ prompts[1].prompt # prompts[2].prompt
    /\ Len(calls) = 4

\* C4: the records built so far are those of a prefix of the prompts, in
\* order; when evaluate returns there is one record per prompt.
C4_RecordsInOrder ==
    /\ Len(results) <= Len(prompts)
    /\ \A k \in DOMAIN results : results[k].prompt = prompts[k].prompt
    /\ pc \in {"evaluate", "await_base", "call_shift", "await_shift"}
           => Len(results) = i - 1
    /\ EvaluateReturned => Len(results) = Len(prompts)

\* C4's case: evaluate returned two records for two different prompts.
C4_Witness ==
    /\ EvaluateReturned
    /\ Len(results) = 2
    /\ results[1].prompt = Some("q")
    /\ results[2].prompt = Some("p")

\* C5: with BASE_MODEL or SHIFT_MODEL unset or empty, main goes from its
\* start to a ValueError only: no call is issued, the prompt file is not
\* read, no file is written.
C5_MissingEnvAborts ==
    (base_model \in {None, Some("")} \/ shift_model \in {None, Some("")})
        => /\ pc \in {"main", "raised"}
           /\ pc = "raised" => err = "ValueError"
           /\ calls = <<>>
           /\ ~file_read
           /\ prompts = <<>>
           /\ files = <<>>
           /\ console = <<>>

\* C5's case: BASE_MODEL is set, SHIFT_MODEL is empty, and main has raised.
C5_Witness ==
    /\ base_model = Some("B")
    /\ shift_model = Some("")
    /\ pc = "raised"
    /\ err = "ValueError"

\* C6: load_prompts fails when an entry lacks "prompt": once the file has
\* been read with such an entry the run has raised, no loaded prompt has an
\* absent text and no call carries an absent prompt text.
C6_MissingPromptRejected ==
    /\ (file_read /\ \E k \in DOMAIN data : "prompt" \notin DOMAIN data[k])
           => pc = "raised"
    /\ \A k \in DOMAIN prompts : prompts[k].prompt # None
    /\ \A k \in DOMAIN calls : calls[k].prompt # None

\* C7 as claimed: every call of summarize ends with exactly one message, the
\* success message when the mean of bleu_ref_shift over the records with
\* reference scores is >= 1.5 times that of bleu_ref_base, and "needs work"
\* in every other case, also without such records and with both means 0.
\* Stated of the calls that return (which leaves out the call that raises),
\* in runs over a valid prompt file.
C7_AlwaysOneMessage ==
    (pc = "done" /\ ValidFile) =>
        /\ Len(Messages) = 1
        /\ Messages[1].text =
               IF /\ RefRecords # <<>>
                  /\ 2 * FieldSum(RefRecords, "bleu_ref_shift")
                         >= 3 * FieldSum(RefRecords, "bleu_ref_base")
                  /\ FieldSum(RefRecords, "bleu_ref_shift") > 0
               THEN "150 % lift achieved"
               ELSE "Needs work"

\* C7 as amended: summarize prints the final message exactly when some record
\* carries reference scores: then one message, the success message when the
\* mean of bleu_ref_shift over those records is >= 1.5 times the mean of
\* bleu_ref_base (both means 0 included), "needs work" otherwise; with no
\* such record no message is printed.  No message is printed before the end.
C7_FinalMessage ==
    /\ ~SummarizeEnded => Messages = <<>>
    /\ SummarizeEnded =>
           IF RefRecords = <<>>
           THEN Messages = <<>>
           ELSE /\ Len(Messages) = 1
                /\ Messages[1].text =
                       IF 2 * FieldSum(RefRecords, "bleu_ref_shift")
                              >= 3 * FieldSum(RefRecords, "bleu_ref_base")
                       THEN "150 % lift achieved"
                       ELSE "Needs work"

\* C7's case: summarize returned over a record with a reference and one
\* without, both means are 0 and the success message was printed.
C7_Witness ==
    /\ pc = "done"
    /\ Len(results) = 2
    /\ Len(RefRecords) = 1
    /\ FieldSum(RefRecords, "bleu_ref_base") = 0
    /\ FieldSum(RefRecords, "bleu_ref_shift") = 0
    /\ Len(Messages) = 1
    /\ Messages[1].text = "150 % lift achieved"

\* C8: for every record sequence, the CSV file summarize writes has one data
\* row per record and exactly the 13 fields of Result as its columns, and
\* summarize does not raise.
C8_CsvShape ==
    /\ pc = "write_md" =>
           /\ out_path \in DOMAIN files
           /\ files[out_path].format = "csv"
           /\ files[out_path].nrows = Len(results)
           /\ files[out_path].columns = {Fields[k] : k \in DOMAIN Fields}
           /\ Cardinality(files[out_path].columns) = 13
    /\ ~(pc = "raised" /\ err = "KeyError")

\* C9: for every --out path, when summarize has returned it has written two
\* distinct files, and the one at the --out path holds the CSV data.
\* Stated of the runs over a valid prompt file.
C9_TwoDistinctFiles ==
    (pc = "done" /\ ValidFile)
        => /\ Cardinality(DOMAIN files) = 2
           /\ files[out_path].format = "csv"

\* C10 as claimed: compute_bleu(x, x) is 1.0 for every string x with at
\* least one token.
C10_SelfBleuIsOne ==
    (sc_score # None /\ Split(sc_x) # <<>>) => sc_score[1] = Scale

\* C10 as amended: compute_bleu(x, x) is 1.0 for every x with at least four
\* tokens; with three, two and one tokens the precisions of the missing
\* n-grams are 0.1, not 1, and the score is 0.1^(1/4), 0.1^(1/2) and
\* 0.1^(3/4): 0.562, 0.316 and 0.178, here rounded down to tenths.
C10_SelfBleuByLength ==
    sc_score # None =>
        LET n == Len(Split(sc_x)) IN
        sc_score[1] = CASE n >= 4 -> Scale
                        [] n = 3  -> 5
                        [] n = 2  -> 3
                        [] n = 1  -> 1
                        [] OTHER  -> 0

\* C10's case: a string of two tokens scored against itself.
C10_Witness ==
    /\ sc_x = <<"a", "b", " ", "b">>
    /\ sc_score = Some(3)

=============================================================================
